---- MODULE Spec2Model ----
(***************************************************************************)
(* A model of the Advent of Code 2023 runner: the Day 1 solver             *)
(* (src/src/days/day1.rs) and the generic run harness                      *)
(* (src/src/utils/aoc.rs, trait AocSolution).                              *)
(*                                                                         *)
(* A text is a sequence of one-character strings.  Offsets into a line are *)
(* 0-based, as in Rust; sequence indices are 1-based.                      *)
(***************************************************************************)
EXTENDS Integers, Sequences, FiniteSets, TLC

VARIABLES
    \* ---- the solver called on its own (SpecSolver) ----
    text,        \* the &str handed to solve_first / solve_second
    first,       \* what solve_first(text) did: NotRun, Ok(n) or Panic
    second,      \* what solve_second(text) did: NotRun, Ok(n) or Panic
    matchLog     \* the `matches` vector of every line solve_second mapped

VARIABLES
    \* ---- the files and the process environment ----
    inputFile,   \* input/<DAY>.txt: [exists, content]
    outputFile,  \* output/<DAY>.txt: [exists, lines]
    cwdOk,       \* whether std::env::current_dir() succeeds in this run
    solver,      \* the implementor of AocSolution that is run
    \* ---- one run of execute ----
    pc,          \* the position in execute
    input,       \* the String read_input_file returned
    part,        \* which element of the vec! is being evaluated (1 or 2)
    now,         \* the monotonic clock Instant::now() reads
    start,       \* timed_execute's `start`
    output,      \* timed_execute's `output`
    solutions,   \* the AocResult values built so far / execute's `solutions`
    solverArgs,  \* the `input` arguments the solving methods received
    trace,       \* what this run did so far, in order (console lines included)
    fileAtStart  \* the output file as it was when this run began

solverVars == <<text, first, second, matchLog>>

harnessVars ==
    <<inputFile, outputFile, cwdOk, solver, pc, input, part, now, start,
      output, solutions, solverArgs, trace, fileAtStart>>

vars == <<solverVars, harnessVars>>

(***************************************************************************)
(* Bounds of the model.                                                    *)
(***************************************************************************)
MaxLen == 4

\* The most ticks of the clock one solving call takes
MaxTick == 1

\* The characters enumerated texts are built from: the letters of one, two
\* (and so of the overlap twone), two numerals, and the line terminator.
Alphabet == {"o", "n", "e", "t", "w", "1", "2", "\n"}

(***************************************************************************)
(* Values.                                                                 *)
(***************************************************************************)
Ok(n) == [tag |-> "Ok", val |-> n]
Panic == [tag |-> "Panic", val |-> 0]
NotRun == [tag |-> "NotRun", val |-> 0]
None == [tag |-> "None", val |-> 0]
Err == [tag |-> "Err", val |-> 0]

Range(s) == {s[i] : i \in DOMAIN s}

(***************************************************************************)
(* Library functions the solver calls, by what they do.                    *)
(***************************************************************************)
\* char::is_ascii_digit
IsAsciiDigit(c) == c \in {"0", "1", "2", "3", "4", "5", "6", "7", "8", "9"}

\* char::to_digit(10) on an ASCII digit, as str::parse uses it
ToDigit(c) ==
    CASE c = "0" -> 0 [] c = "1" -> 1 [] c = "2" -> 2 [] c = "3" -> 3
      [] c = "4" -> 4 [] c = "5" -> 5 [] c = "6" -> 6 [] c = "7" -> 7
      [] c = "8" -> 8 [] c = "9" -> 9

\* The decimal digit character of d in 0..9
DigitChar(d) == <<"0", "1", "2", "3", "4", "5", "6", "7", "8", "9">>[d + 1]

\* Display of a u32: its decimal digits, most significant first, no padding.
RECURSIVE ToDecimal(_)
ToDecimal(n) ==
    IF n < 10 THEN <<DigitChar(n)>>
    ELSE Append(ToDecimal(n \div 10), DigitChar(n % 10))

\* The digits of s folded left to right onto acc; Err at a non-digit.
RECURSIVE ParseDigits(_, _, _)
ParseDigits(s, i, acc) ==
    IF i > Len(s) THEN Ok(acc)
    ELSE IF ~IsAsciiDigit(s[i]) THEN Err
    ELSE ParseDigits(s, i + 1, 10 * acc + ToDigit(s[i]))

\* str::parse::<u32>: Err on the empty string, on a lone sign and on any
\* non-digit; one leading "+" is accepted.  A string of more than 9 digits
\* is reported as an overflow (every string of at most 9 digits fits a u32;
\* the solver parses strings of one or two characters only).
ParseU32(s) ==
    IF Len(s) = 0 THEN Err
    ELSE LET body == IF s[1] = "+" THEN Tail(s) ELSE s
         IN  IF Len(body) = 0 \/ Len(body) > 9 THEN Err
             ELSE ParseDigits(body, 1, 0)

\* str::lines: the text is cut after every "\n"; the "\n" and a "\r" right
\* before it are dropped; what follows the last "\n" is a line only when it
\* is not empty.
RECURSIVE LinesFrom(_, _, _)
LinesFrom(s, i, cur) ==
    IF i > Len(s) THEN (IF cur = <<>> THEN <<>> ELSE <<cur>>)
    ELSE IF s[i] = "\n"
         THEN LET line == IF cur # <<>> /\ cur[Len(cur)] = "\r"
                          THEN SubSeq(cur, 1, Len(cur) - 1) ELSE cur
              IN  <<line>> \o LinesFrom(s, i + 1, <<>>)
         ELSE LinesFrom(s, i + 1, Append(cur, s[i]))

Lines(s) == LinesFrom(s, 1, <<>>)

\* line.chars().find(char::is_ascii_digit): scan from the front
RECURSIVE FindFrom(_, _)
FindFrom(line, i) ==
    IF i > Len(line) THEN None
    ELSE IF IsAsciiDigit(line[i]) THEN [tag |-> "Some", val |-> line[i]]
    ELSE FindFrom(line, i + 1)

Find(line) == FindFrom(line, 1)

\* line.chars().rfind(char::is_ascii_digit): scan from the back
RECURSIVE RFindFrom(_, _)
RFindFrom(line, i) ==
    IF i < 1 THEN None
    ELSE IF IsAsciiDigit(line[i]) THEN [tag |-> "Some", val |-> line[i]]
    ELSE RFindFrom(line, i - 1)

\* A slip: the last digit searched from the front, like the first one
RFindFromFront(line) == FindFrom(line, 1)

RFind(line) == RFindFrom(line, Len(line))

\* Option::unwrap_or
UnwrapOr(opt, dflt) == IF opt.tag = "Some" THEN opt.val ELSE dflt

\* Whether pattern pat stands in line at 1-based index i
StartsAt(line, pat, i) ==
    /\ i + Len(pat) - 1 <= Len(line)
    /\ \A k \in 1..Len(pat) : line[i + k - 1] = pat[k]

\* line.match_indices(pat): the matches of one pattern from left to right,
\* each search resuming after the end of the previous match (the matches of
\* one pattern never overlap); each is (0-based offset, matched text).
RECURSIVE MatchIndicesFrom(_, _, _)
MatchIndicesFrom(line, pat, i) ==
    IF i + Len(pat) - 1 > Len(line) THEN <<>>
    ELSE IF StartsAt(line, pat, i)
         THEN <<(<<i - 1, pat>>)>> \o MatchIndicesFrom(line, pat, i + Len(pat))
         ELSE MatchIndicesFrom(line, pat, i + 1)

MatchIndices(line, pat) == MatchIndicesFrom(line, pat, 1)

\* Iterator::min_by on the offsets: of several equally small elements the
\* first one is returned; None on an empty vector.
RECURSIVE MinByFrom(_, _, _)
MinByFrom(ms, i, best) ==
    IF i > Len(ms) THEN [tag |-> "Some", val |-> best]
    ELSE MinByFrom(ms, i + 1, IF ms[i][1] < best[1] THEN ms[i] ELSE best)

MinBy(ms) == IF ms = <<>> THEN None ELSE MinByFrom(ms, 2, ms[1])

\* Iterator::max_by on the offsets: of several equally large elements the
\* last one is returned; None on an empty vector.
RECURSIVE MaxByFrom(_, _, _)
MaxByFrom(ms, i, best) ==
    IF i > Len(ms) THEN [tag |-> "Some", val |-> best]
    ELSE MaxByFrom(ms, i + 1, IF ms[i][1] >= best[1] THEN ms[i] ELSE best)

\* A slip: the last element of the vector (the last in table order) taken
\* for the element with the largest offset
MaxByLastPushed(ms) ==
    IF ms = <<>> THEN None ELSE [tag |-> "Some", val |-> ms[Len(ms)]]

MaxBy(ms) == IF ms = <<>> THEN None ELSE MaxByFrom(ms, 2, ms[1])

(***************************************************************************)
(* Day 1, part 1.                                                          *)
(***************************************************************************)
\* The closure of solve_first: one line to its number, or Panic when the
\* parse of the two characters fails (unwrap of an Err).
FirstOfLine(line) ==
    LET f == UnwrapOr(Find(line), "0")
        l == UnwrapOr(RFind(line), "0")
        number == <<f, l>>
        parsed == ParseU32(number)
    IN  IF parsed.tag = "Ok" THEN Ok(parsed.val) ELSE Panic

\* Iterator::sum over the mapped lines, front to back; a panic in the
\* closure ends the fold.
RECURSIVE SumFirst(_, _, _)
SumFirst(ls, i, acc) ==
    IF i > Len(ls) THEN Ok(acc)
    ELSE LET r == FirstOfLine(ls[i])
         IN  IF r.tag = "Panic" THEN Panic
             ELSE SumFirst(ls, i + 1, acc + r.val)

solve_first(txt) == SumFirst(Lines(txt), 1, 0)

(***************************************************************************)
(* Day 1, part 2.                                                          *)
(***************************************************************************)
NUM_MATCHES ==
    << <<"o", "n", "e">>, <<"t", "w", "o">>, <<"t", "h", "r", "e", "e">>,
       <<"f", "o", "u", "r">>, <<"f", "i", "v", "e">>, <<"s", "i", "x">>,
       <<"s", "e", "v", "e", "n">>, <<"e", "i", "g", "h", "t">>,
       <<"n", "i", "n", "e">>,
       <<"0">>, <<"1">>, <<"2">>, <<"3">>, <<"4">>, <<"5">>, <<"6">>,
       <<"7">>, <<"8">>, <<"9">> >>

\* AocDay::match_number: the token parsed as a number, else looked up in
\* the table of words, else a panic.
match_number(number) ==
    LET parsed == ParseU32(number)
    IN  IF parsed.tag = "Ok" THEN Ok(parsed.val)
        ELSE CASE number = <<"o", "n", "e">> -> Ok(1)
               [] number = <<"t", "w", "o">> -> Ok(2)
               [] number = <<"t", "h", "r", "e", "e">> -> Ok(3)
               [] number = <<"f", "o", "u", "r">> -> Ok(4)
               [] number = <<"f", "i", "v", "e">> -> Ok(5)
               [] number = <<"s", "i", "x">> -> Ok(6)
               [] number = <<"s", "e", "v", "e", "n">> -> Ok(7)
               [] number = <<"e", "i", "g", "h", "t">> -> Ok(8)
               [] number = <<"n", "i", "n", "e">> -> Ok(9)
               [] OTHER -> Panic

\* NUM_MATCHES.iter().flat_map(|num| line.match_indices(num)).collect():
\* the matches of the first token, then those of the second, and so on.
RECURSIVE MatchesFrom(_, _)
MatchesFrom(line, t) ==
    IF t > Len(NUM_MATCHES) THEN <<>>
    ELSE MatchIndices(line, NUM_MATCHES[t]) \o MatchesFrom(line, t + 1)

\* A slip: one pass over the line as a tokenizer makes it, each match
\* consuming its characters, so that a token that begins inside a match
\* is not seen.
RECURSIVE TokenizeFrom(_, _)
TokenizeFrom(line, i) ==
    IF i > Len(line) THEN <<>>
    ELSE LET here == {t \in DOMAIN NUM_MATCHES : StartsAt(line, NUM_MATCHES[t], i)}
         IN  IF here = {} THEN TokenizeFrom(line, i + 1)
             ELSE LET t == CHOOSE u \in here : \A v \in here : u <= v
                  IN  <<(<<i - 1, NUM_MATCHES[t]>>)>>
                         \o TokenizeFrom(line, i + Len(NUM_MATCHES[t]))

MatchesConsuming(line) == TokenizeFrom(line, 1)

Matches(line) == MatchesFrom(line, 1)

\* A slip: a line without a match counted as 0 instead of unwrapped
SecondOfLineOrZero(line) ==
    LET matches == Matches(line)
        fst == MinBy(matches)
        lst == MaxBy(matches)
    IN  IF fst.tag = "None" \/ lst.tag = "None" THEN Ok(0)
        ELSE Ok(10 * match_number(fst.val[2]).val + match_number(lst.val[2]).val)

\* The closure of solve_second: one line to its number, or Panic (unwrap of
\* None when the line has no match, a panic of match_number, unwrap of a
\* failed parse).
SecondOfLine(line) ==
    LET matches == Matches(line)
        fst == MinBy(matches)
        lst == MaxBy(matches)
    IN  IF fst.tag = "None" \/ lst.tag = "None" THEN Panic
        ELSE LET a == match_number(fst.val[2])
                 b == match_number(lst.val[2])
             IN  IF a.tag = "Panic" \/ b.tag = "Panic" THEN Panic
                 ELSE LET parsed == ParseU32(ToDecimal(a.val) \o ToDecimal(b.val))
                      IN  IF parsed.tag = "Ok" THEN Ok(parsed.val) ELSE Panic

RECURSIVE SumSecond(_, _, _)
SumSecond(ls, i, acc) ==
    IF i > Len(ls) THEN Ok(acc)
    ELSE LET r == SecondOfLine(ls[i])
         IN  IF r.tag = "Panic" THEN Panic
             ELSE SumSecond(ls, i + 1, acc + r.val)

solve_second(txt) == SumSecond(Lines(txt), 1, 0)

\* The `matches` vectors solve_second built: one per line, up to and
\* including the line whose closure panicked.
RECURSIVE MatchLogFrom(_, _)
MatchLogFrom(ls, i) ==
    IF i > Len(ls) THEN <<>>
    ELSE IF SecondOfLine(ls[i]).tag = "Panic" THEN <<Matches(ls[i])>>
    ELSE <<Matches(ls[i])>> \o MatchLogFrom(ls, i + 1)

MatchLog(txt) == MatchLogFrom(Lines(txt), 1)

(***************************************************************************)
(* Input texts.                                                            *)
(***************************************************************************)
\* The example of part 1 (sum 142)
Example1 ==
    <<"1", "a", "b", "c", "2", "\n", "p", "q", "r", "3", "s", "t", "u", "8",
      "v", "w", "x", "\n", "a", "1", "b", "2", "c", "3", "d", "4", "e", "5",
      "f", "\n", "t", "r", "e", "b", "7", "u", "c", "h", "e", "t", "\n">>

\* The example of part 2 (sum 281)
Example2 ==
    <<"t", "w", "o", "1", "n", "i", "n", "e", "\n", "e", "i", "g", "h", "t",
      "w", "o", "t", "h", "r", "e", "e", "\n", "a", "b", "c", "o", "n", "e",
      "2", "t", "h", "r", "e", "e", "x", "y", "z", "\n", "x", "t", "w", "o",
      "n", "e", "3", "f", "o", "u", "r", "\n", "4", "n", "i", "n", "e", "e",
      "i", "g", "h", "t", "s", "e", "v", "e", "n", "2", "\n", "z", "o", "n",
      "e", "i", "g", "h", "t", "2", "3", "4", "\n", "7", "p", "q", "r", "s",
      "t", "s", "i", "x", "t", "e", "e", "n", "\n">>

\* Records with an empty line between them
GapText ==
    <<"1", "a", "b", "c", "2", "\n", "\n", "t", "r", "e", "b", "7", "u", "c",
      "h", "e", "t", "\n">>

\* A second line with neither a numeral nor a word
NoDigitText ==
    <<"t", "w", "o", "1", "n", "i", "n", "e", "\n", "a", "b", "c", "\n">>

\* Lines in which two words share a character
OverlapTexts ==
    { <<"t", "w", "o", "n", "e">>,
      <<"o", "n", "e", "i", "g", "h", "t">>,
      <<"e", "i", "g", "h", "t", "w", "o">>,
      <<"n", "i", "n", "e", "i", "g", "h", "t", "\n", "t", "w", "o", "n", "e", "\n">> }

RECURSIVE SeqsUpTo(_, _)
SeqsUpTo(S, n) ==
    IF n = 0 THEN {<<>>}
    ELSE LET shorter == SeqsUpTo(S, n - 1)
         IN  shorter \cup {Append(s, c) : s \in shorter, c \in S}

\* Every text of at most MaxLen characters of the alphabet, and the examples
SolverTexts ==
    SeqsUpTo(Alphabet, MaxLen)
        \cup {Example1, Example2, GapText, NoDigitText} \cup OverlapTexts

(***************************************************************************)
(* The solver called on its own.                                           *)
(***************************************************************************)
HarnessIdle ==
    /\ inputFile = [exists |-> FALSE, content |-> <<>>]
    /\ outputFile = [exists |-> FALSE, lines |-> <<>>]
    /\ cwdOk = TRUE
    /\ pc = "idle"
    /\ input = <<>>
    /\ part = 1
    /\ now = 0
    /\ start = 0
    /\ output = 0
    /\ solutions = <<>>
    /\ solverArgs = <<>>
    /\ trace = <<>>
    /\ fileAtStart = outputFile

SolverInit ==
    /\ text \in SolverTexts
    /\ first = NotRun
    /\ second = NotRun
    /\ matchLog = <<>>
    /\ solver = "AocDay"
    /\ HarnessIdle

CallSolveFirst ==
    /\ first = NotRun
    /\ first' = solve_first(text)
    /\ UNCHANGED <<text, second, matchLog>>
    /\ UNCHANGED harnessVars

CallSolveSecond ==
    /\ second = NotRun
    /\ second' = solve_second(text)
    /\ matchLog' = MatchLog(text)
    /\ UNCHANGED <<text, first>>
    /\ UNCHANGED harnessVars

SolverNext == CallSolveFirst \/ CallSolveSecond

SpecSolver == SolverInit /\ [][SolverNext]_vars

(***************************************************************************)
(* What the specification says of the solver, stated without the solver's  *)
(* own steps.                                                              *)
(***************************************************************************)
RECURSIVE SeqSum(_)
SeqSum(ns) == IF ns = <<>> THEN 0 ELSE ns[1] + SeqSum(Tail(ns))

SetMin(S) == CHOOSE x \in S : \A y \in S : x <= y
SetMax(S) == CHOOSE x \in S : \A y \in S : x >= y

DecimalDigits == <<"0", "1", "2", "3", "4", "5", "6", "7", "8", "9">>

\* The value of a numeral character
NumeralValue(c) == (CHOOSE d \in DOMAIN DecimalDigits : DecimalDigits[d] = c) - 1

\* The 1-based positions of the decimal digit characters of a line
DigitPositions(line) ==
    {i \in DOMAIN line : line[i] \in Range(DecimalDigits)}

\* 10*f + l for the first and the last digit of a line, 0 without a digit
CalibrationOfDigits(line) ==
    IF DigitPositions(line) = {} THEN 0
    ELSE 10 * NumeralValue(line[SetMin(DigitPositions(line))])
            + NumeralValue(line[SetMax(DigitPositions(line))])

\* The occurrences of the 19 tokens in a line: (0-based offset, index in
\* the table) for every place where a token stands as a substring
Occurrences(line) ==
    {o \in (0..(Len(line) - 1)) \X DOMAIN NUM_MATCHES :
        StartsAt(line, NUM_MATCHES[o[2]], o[1] + 1)}

\* The fixed table: the words one..nine are the entries 1..9, the numerals
\* 0..9 the entries 10..19
TokenValue(t) == IF t <= 9 THEN t ELSE t - 10

\* 10*v(first) + v(last) for the occurrences with the smallest and the
\* largest offset of a line that has an occurrence
CalibrationOfTokens(line) ==
    LET occ == Occurrences(line)
        lo == SetMin({o[1] : o \in occ})
        hi == SetMax({o[1] : o \in occ})
        fo == CHOOSE o \in occ : o[1] = lo
        la == CHOOSE o \in occ : o[1] = hi
    IN  10 * TokenValue(fo[2]) + TokenValue(la[2])

EveryLineHasToken(txt) ==
    \A k \in DOMAIN Lines(txt) : Occurrences(Lines(txt)[k]) # {}

\* C1: solve_first returns the sum over the lines of 10*f + l, f the first
\* and l the last decimal digit of the line, a line without a digit
\* counting 0; the example of part 1 sums to 142.
C1_FirstIsSumOfDigitPairs ==
    first # NotRun =>
        /\ first = Ok(SeqSum([k \in DOMAIN Lines(text) |->
                                 CalibrationOfDigits(Lines(text)[k])]))
        /\ text = Example1 => first = Ok(142)

C1_Witness ==
    /\ text = Example1
    /\ first = Ok(142)

\* C2: on a text whose every line holds a token, solve_second returns the
\* sum over the lines of 10*v(first) + v(last), first and last being the
\* occurrences with the smallest and the largest starting offset; the
\* example of part 2 sums to 281.
C2_SecondIsSumOfTokenPairs ==
    (second # NotRun /\ EveryLineHasToken(text)) =>
        /\ second = Ok(SeqSum([k \in DOMAIN Lines(text) |->
                                  CalibrationOfTokens(Lines(text)[k])]))
        /\ text = Example2 => second = Ok(281)

C2_Witness ==
    /\ text = Example2
    /\ second = Ok(281)

\* C3: every occurrence of a token in a line, at every offset, is among
\* the matches solve_second chooses the first and the last from, also when
\* it shares characters with another occurrence.
C3_EveryOccurrenceIsAMatch ==
    second # NotRun =>
        \A k \in DOMAIN matchLog :
            \A o \in Occurrences(Lines(text)[k]) :
                <<o[1], NUM_MATCHES[o[2]]>> \in Range(matchLog[k])

\* twone: two at offset 0 and one at offset 2 share the o
C3_Witness ==
    /\ text = <<"t", "w", "o", "n", "e">>
    /\ second = Ok(21)
    /\ Len(matchLog) = 1
    /\ <<0, <<"t", "w", "o">>>> \in Range(matchLog[1])
    /\ <<2, <<"o", "n", "e">>>> \in Range(matchLog[1])

\* C9: on a text with a line that holds no token (an empty line between
\* records is one), solve_second panics, and solve_first returns, that
\* line counting 0.
C9_TokenlessLinePanicsSecond ==
    ~EveryLineHasToken(text) =>
        /\ second # NotRun => second = Panic
        /\ first # NotRun =>
              /\ first.tag = "Ok"
              /\ first = Ok(SeqSum([k \in DOMAIN Lines(text) |->
                               IF Occurrences(Lines(text)[k]) = {} THEN 0
                               ELSE CalibrationOfDigits(Lines(text)[k])]))

C9_Witness ==
    /\ text = GapText
    /\ Lines(text)[2] = <<>>
    /\ second = Panic
    /\ first = Ok(89)

(***************************************************************************)
(* The run harness: AocSolution::execute and the methods it calls.         *)
(***************************************************************************)
\* One thing a run did.  The kinds that start with "print" are lines on the
\* console.
Ev(kind, p, v) == [kind |-> kind, part |-> p, val |-> v]

\* One line of the output file
FileLine(kind, p, v) == [kind |-> kind, part |-> p, val |-> v]

\* The input texts the harness is run on: the two examples, records with
\* an empty line between them, and an empty file.
HarnessTexts == {Example1, Example2, GapText, <<>>}

InputFiles ==
    {[exists |-> FALSE, content |-> <<>>]}
        \cup {[exists |-> TRUE, content |-> t] : t \in HarnessTexts}

\* The implementors of the trait: Day 1, and any other implementor, of
\* whose solving methods (required by the trait, lines 25-26) nothing is
\* known but that a call returns or panics.
Solvers == {"AocDay", "Other"}

\* What the call solve_func(self, input) of timed_execute can do
SolveOutcomes(sv, p, txt) ==
    IF sv = "AocDay"
    THEN {IF p = 1 THEN solve_first(txt) ELSE solve_second(txt)}
    ELSE {Panic, Ok(p)}

\* fs::read_to_string(input/<DAY>.txt)
ReadInputFile(file) ==
    IF file.exists THEN [tag |-> "Ok", val |-> file.content]
    ELSE [tag |-> "Err", val |-> <<>>]

\* A slip: the file opened without truncate(true) keeps its lines
OpenKeepingContent(file) == [exists |-> TRUE, lines |-> file.lines]

\* File::options().create(true).write(true).truncate(true).open(..): the
\* file exists afterwards and is empty.
OpenTruncate(file) == [exists |-> TRUE, lines |-> <<>>]

\* Lines written through a handle opened with write(true), from the start
\* of the file: they replace what stood there, and what the file held
\* beyond them stays.
WriteFromStart(file, lines) ==
    [file EXCEPT !.lines =
        lines \o SubSeq(file.lines, Len(lines) + 1, Len(file.lines))]

\* The four writeln! of one iteration of the loop of write_output_file
\* (the last one writes the separator and an empty line).
RECURSIVE ReportLinesFrom(_, _)
ReportLinesFrom(sols, n) ==
    IF n > Len(sols) THEN <<>>
    ELSE << FileLine("header", n, sols[n].elapsed),
            FileLine("separator", 0, 0),
            FileLine("answer", 0, sols[n].output),
            FileLine("separator", 0, 0),
            FileLine("blank", 0, 0) >>
         \o ReportLinesFrom(sols, n + 1)

ReportLines(sols) == ReportLinesFrom(sols, 1)

\* The four println! of one iteration of the loop of execute
RECURSIVE ConsoleReportFrom(_, _)
ConsoleReportFrom(sols, n) ==
    IF n > Len(sols) THEN <<>>
    ELSE << Ev("print_part_ran", n, sols[n].elapsed),
            Ev("print_output_header", n, 0),
            Ev("print_answer", n, sols[n].output),
            Ev("print_footer", n, 0) >>
         \o ConsoleReportFrom(sols, n + 1)

ConsoleReport(sols) == ConsoleReportFrom(sols, 1)

HarnessInit ==
    /\ HarnessIdle
    /\ solver \in Solvers
    /\ text = <<>>
    /\ first = NotRun
    /\ second = NotRun
    /\ matchLog = <<>>

\* execute is entered (line 98): the banner is printed.  The process may
\* be a new one (after a return or after a panic ended the previous one);
\* the files keep what the previous run left.  The input file and the
\* working directory are what they are for the whole run.
Begin ==
    /\ pc \in {"idle", "done", "panicked"}
    /\ inputFile' \in InputFiles
    /\ cwdOk' \in BOOLEAN
    /\ pc' = "read"
    /\ input' = <<>>
    /\ part' = 1
    /\ now' = 0
    /\ start' = 0
    /\ output' = 0
    /\ solutions' = <<>>
    /\ solverArgs' = <<>>
    /\ trace' = <<Ev("print_banner", 0, 0)>>
    /\ fileAtStart' = outputFile
    /\ UNCHANGED <<outputFile, solver>>
    /\ UNCHANGED solverVars

\* A slip: the solvers run on an empty text when the read failed
ReadErrArmRunsSolvers ==
    /\ solutions' = <<>>
    /\ input' = <<>>
    /\ pc' = "timed_start"
    /\ trace' = trace \o <<Ev("read_err", 0, 0), Ev("print_failed", 0, 0)>>

\* The Err arm of the match (lines 105-114): the failure line is printed
\* and the vector of solutions is empty.
ReadErrArm ==
    /\ solutions' = <<>>
    /\ input' = input
    /\ pc' = "print_passed"
    /\ trace' = trace \o <<Ev("read_err", 0, 0), Ev("print_failed", 0, 0)>>

\* match self.read_input_file() (lines 100-115): current_dir().expect
\* panics; Ok goes on to the vec! of timed calls; Err prints the failure
\* line and yields an empty vector.
ReadInput ==
    /\ pc = "read"
    /\ IF ~cwdOk
       THEN /\ pc' = "panicked"
            /\ trace' = Append(trace, Ev("panic_cwd", 0, 0))
            /\ UNCHANGED <<input, solutions>>
       ELSE LET res == ReadInputFile(inputFile)
            IN  IF res.tag = "Ok"
                THEN /\ input' = res.val
                     /\ pc' = "timed_start"
                     /\ trace' = Append(trace, Ev("read_ok", 0, 0))
                     /\ UNCHANGED solutions
                ELSE ReadErrArm
    /\ UNCHANGED <<inputFile, outputFile, cwdOk, solver, part, now, start,
                   output, solverArgs, fileAtStart>>
    /\ UNCHANGED solverVars

\* A slip: a progress line printed after the timer was started
TimedStartThenPrint ==
    /\ pc = "timed_start"
    /\ start' = now
    /\ pc' = "timed_solve"
    /\ trace' = trace \o <<Ev("timer_start", part, 0),
                           Ev("print_part_ran", part, 0)>>
    /\ UNCHANGED <<inputFile, outputFile, cwdOk, solver, input, part, now,
                   output, solutions, solverArgs, fileAtStart>>
    /\ UNCHANGED solverVars

\* timed_execute, line 85: let start = Instant::now()
TimedStart ==
    /\ pc = "timed_start"
    /\ start' = now
    /\ pc' = "timed_solve"
    /\ trace' = Append(trace, Ev("timer_start", part, 0))
    /\ UNCHANGED <<inputFile, outputFile, cwdOk, solver, input, part, now,
                   output, solutions, solverArgs, fileAtStart>>
    /\ UNCHANGED solverVars

\* timed_execute, line 86: let output = solve_func(self, input).  The call
\* takes some time; a panic of the solving method unwinds out of execute.
TimedSolve ==
    /\ pc = "timed_solve"
    /\ \E d \in 0..MaxTick, r \in SolveOutcomes(solver, part, input) :
          /\ now' = now + d
          /\ solverArgs' = Append(solverArgs, input)
          /\ IF r.tag = "Panic"
             THEN /\ pc' = "panicked"
                  /\ trace' = Append(trace, Ev("solve_panic", part, 0))
                  /\ UNCHANGED output
             ELSE /\ pc' = "timed_stop"
                  /\ output' = r.val
                  /\ trace' = Append(trace, Ev("solve_ok", part, 0))
    /\ UNCHANGED <<inputFile, outputFile, cwdOk, solver, input, part, start,
                   solutions, fileAtStart>>
    /\ UNCHANGED solverVars

\* A slip: the result of a part printed as soon as the part has returned
TimedStopThenPrint ==
    /\ pc = "timed_stop"
    /\ solutions' = Append(solutions,
                           [output |-> output, elapsed |-> now - start])
    /\ trace' = trace \o <<Ev("timer_stop", part, now - start),
                           Ev("print_answer", part, output)>>
    /\ IF part = 1
       THEN part' = 2 /\ pc' = "timed_start"
       ELSE part' = part /\ pc' = "print_passed"
    /\ UNCHANGED <<inputFile, outputFile, cwdOk, solver, input, now, start,
                   output, solverArgs, fileAtStart>>
    /\ UNCHANGED solverVars

\* timed_execute, lines 87-89: let elapsed = start.elapsed(), and the
\* AocResult becomes the next element of the vec! (lines 101-104): part 2
\* follows part 1, the line after the match follows part 2.
TimedStop ==
    /\ pc = "timed_stop"
    /\ solutions' = Append(solutions,
                           [output |-> output, elapsed |-> now - start])
    /\ trace' = Append(trace, Ev("timer_stop", part, now - start))
    /\ IF part = 1
       THEN part' = 2 /\ pc' = "timed_start"
       ELSE part' = part /\ pc' = "print_passed"
    /\ UNCHANGED <<inputFile, outputFile, cwdOk, solver, input, now, start,
                   output, solverArgs, fileAtStart>>
    /\ UNCHANGED solverVars

\* Line 117: println!("Passed."), after the match, whatever its arm was.
PrintPassed ==
    /\ pc = "print_passed"
    /\ trace' = Append(trace, Ev("print_passed", 0, 0))
    /\ pc' = "print_solutions"
    /\ UNCHANGED <<inputFile, outputFile, cwdOk, solver, input, part, now,
                   start, output, solutions, solverArgs, fileAtStart>>
    /\ UNCHANGED solverVars

\* Lines 119-128: the loop that prints every solution.
PrintSolutions ==
    /\ pc = "print_solutions"
    /\ trace' = trace \o ConsoleReport(solutions)
    /\ pc' = "write"
    /\ UNCHANGED <<inputFile, outputFile, cwdOk, solver, input, part, now,
                   start, output, solutions, solverArgs, fileAtStart>>
    /\ UNCHANGED solverVars

\* Lines 130-139: write_output_file(&solutions), the warning on Err, and
\* return Some(()).
\*   open_err:  open fails; `?` returns the Err, the file is as before.
\*   flush_ok:  the file is truncated; every writeln! goes to the BufWriter
\*              (the reports here are shorter than its buffer), Ok(()) is
\*              returned, and the drop of the BufWriter writes the buffer.
\*   flush_err: as flush_ok, but the write of the buffer in the drop fails
\*              after some of the lines: drop ignores the error, and the
\*              function has returned Ok(()).  Nothing is written for an
\*              empty vector, so this needs a solution.
WriteOutputFile ==
    /\ pc = "write"
    /\ IF ~cwdOk
       THEN /\ pc' = "panicked"
            /\ trace' = Append(trace, Ev("panic_cwd", 0, 0))
            /\ UNCHANGED outputFile
       ELSE \E outcome \in {"open_err", "flush_ok", "flush_err"} :
              /\ outcome = "flush_err" => solutions # <<>>
              /\ pc' = "done"
              /\ CASE outcome = "open_err" ->
                        /\ UNCHANGED outputFile
                        /\ trace' = trace \o <<Ev("open_err", 0, 0),
                                               Ev("print_warning", 0, 0),
                                               Ev("return", 0, 0)>>
                   [] outcome = "flush_ok" ->
                        /\ outputFile' =
                              WriteFromStart(OpenTruncate(outputFile),
                                             ReportLines(solutions))
                        /\ trace' = trace \o <<Ev("open_ok", 0, 0),
                                               Ev("flush_ok", 0, 0),
                                               Ev("return", 0, 0)>>
                   [] outcome = "flush_err" ->
                        /\ \E k \in 0..(Len(ReportLines(solutions)) - 1) :
                              outputFile' =
                                 WriteFromStart(
                                    OpenTruncate(outputFile),
                                    SubSeq(ReportLines(solutions), 1, k))
                        /\ trace' = trace \o <<Ev("open_ok", 0, 0),
                                               Ev("flush_err", 0, 0),
                                               Ev("return", 0, 0)>>
    /\ UNCHANGED <<inputFile, cwdOk, solver, input, part, now, start,
                   output, solutions, solverArgs, fileAtStart>>
    /\ UNCHANGED solverVars

Next ==
    \/ Begin
    \/ ReadInput
    \/ TimedStart
    \/ TimedSolve
    \/ TimedStop
    \/ PrintPassed
    \/ PrintSolutions
    \/ WriteOutputFile

Spec == HarnessInit /\ [][Next]_vars

(***************************************************************************)
(* What the specification says of a run.                                   *)
(***************************************************************************)
Has(kind) == \E i \in DOMAIN trace : trace[i].kind = kind

HasPart(kind, p) ==
    \E i \in DOMAIN trace : trace[i].kind = kind /\ trace[i].part = p

\* Every event of kind b (of part q) has an event of kind a (of part p)
\* before it
Precedes(a, p, b, q) ==
    \A j \in DOMAIN trace :
        (trace[j].kind = b /\ trace[j].part = q) =>
            \E i \in 1..(j - 1) : trace[i].kind = a /\ trace[i].part = p

\* The lines of the report on the console, and the steps on the output file
ReportKinds ==
    {"print_passed", "print_part_ran", "print_output_header", "print_answer",
     "print_footer", "print_warning"}
FileKinds == {"open_ok", "open_err", "flush_ok", "flush_err"}
SolveKinds == {"timer_start", "solve_ok", "solve_panic", "timer_stop"}

\* C4: when the read of the input fails, the failure is printed, no
\* solving method is called, the vector of results is empty, and the run
\* goes on to its return without a panic.
C4_ReadFailureYieldsNoResults ==
    Has("read_err") =>
        /\ Has("print_failed")
        /\ \A i \in DOMAIN trace : trace[i].kind \notin SolveKinds
        /\ solverArgs = <<>>
        /\ solutions = <<>>
        /\ pc \in {"print_passed", "print_solutions", "write", "done"}
        /\ pc = "done" => Has("return")
        /\ pc # "done" => ENABLED (PrintPassed \/ PrintSolutions \/ WriteOutputFile)

C4_Witness ==
    /\ pc = "done"
    /\ Has("read_err")
    /\ Has("print_failed")
    /\ Has("return")

\* C5: in a run whose read succeeded the steps come in the order read,
\* part 1, part 2, report on the console, output file: part 1 has returned
\* and its elapsed time is recorded before part 2 starts, every timer
\* starts after the read and stops before any line of the report or any
\* step on the output file, and both parts receive the text that was read.
C5_FixedOrderOfSteps ==
    Has("read_ok") =>
        /\ Precedes("read_ok", 0, "timer_start", 1)
        /\ Precedes("timer_start", 1, "solve_ok", 1)
        /\ Precedes("solve_ok", 1, "timer_stop", 1)
        /\ Precedes("timer_stop", 1, "timer_start", 2)
        /\ Precedes("timer_start", 2, "solve_ok", 2)
        /\ Precedes("solve_ok", 2, "timer_stop", 2)
        /\ HasPart("timer_start", 2) =>
              /\ Len(solutions) >= 1
              /\ \E i \in DOMAIN trace :
                    /\ trace[i].kind = "timer_stop" /\ trace[i].part = 1
                    /\ solutions[1].elapsed = trace[i].val
                    /\ solutions[1].elapsed >= 0
        /\ \A j \in DOMAIN trace :
              trace[j].kind \in ReportKinds \cup FileKinds =>
                 \E i \in 1..(j - 1) :
                    trace[i].kind = "timer_stop" /\ trace[i].part = 2
        /\ \A i, j \in DOMAIN trace :
              (trace[i].kind \in FileKinds /\ trace[j].kind \in ReportKinds
                  /\ trace[j].kind # "print_warning") => j < i
        /\ \A k \in DOMAIN solverArgs : solverArgs[k] = inputFile.content
        /\ Len(solverArgs) <= 2

C5_Witness ==
    /\ pc = "done"
    /\ Has("read_ok")
    /\ Has("flush_ok")
    /\ Len(solverArgs) = 2
    /\ Len(solutions) = 2

\* C6: after a run whose write of the output file succeeded, the file
\* holds the report of that run and nothing else: for every part a header
\* with the part number and the elapsed time, a separator, the answer, a
\* separator and an empty line; it is empty when the run could not read
\* its input.
C6_FileIsTheLastReport ==
    (pc = "done" /\ Has("flush_ok")) =>
        /\ outputFile.exists
        /\ Len(outputFile.lines) = 5 * Len(solutions)
        /\ \A n \in DOMAIN solutions :
              /\ outputFile.lines[5 * n - 4]
                    = FileLine("header", n, solutions[n].elapsed)
              /\ outputFile.lines[5 * n - 3] = FileLine("separator", 0, 0)
              /\ outputFile.lines[5 * n - 2]
                    = FileLine("answer", 0, solutions[n].output)
              /\ outputFile.lines[5 * n - 1] = FileLine("separator", 0, 0)
              /\ outputFile.lines[5 * n] = FileLine("blank", 0, 0)
        /\ Len(solutions) = IF Has("read_ok") THEN 2 ELSE 0
        /\ Has("read_err") => outputFile.lines = <<>>

\* A run without input after a run that left a report
C6_Witness ==
    /\ pc = "done"
    /\ Has("flush_ok")
    /\ Has("read_err")
    /\ fileAtStart.lines # <<>>
    /\ outputFile.lines = <<>>

\* C7: when the creation or the write of the output file fails, the
\* warning is printed after every line of the results, and the run returns.
C7_WriteFailureWarns ==
    (pc = "done" /\ (Has("open_err") \/ Has("flush_err"))) =>
        /\ Has("print_warning")
        /\ Has("return")
        /\ \A i, j \in DOMAIN trace :
              (trace[i].kind = "print_warning"
                  /\ trace[j].kind \in ReportKinds \ {"print_warning"}) => j < i

\* C8: a run whose read failed prints the failure marker and not the
\* success marker; a run whose read succeeded prints the success marker and
\* not the failure marker.
C8_MarkersDistinguish ==
    pc = "done" =>
        /\ Has("read_err") => (Has("print_failed") /\ ~Has("print_passed"))
        /\ Has("read_ok") => (Has("print_passed") /\ ~Has("print_failed"))

\* C10: a panic of a solving method ends the run: after a panic of part 1
\* part 2 is not started; after a panic of part 2 the result of part 1 is
\* not printed; nothing of the report is printed, the output file is not
\* opened, and it holds what it held when the run began.
C10_SolverPanicAbortsRun ==
    Has("solve_panic") =>
        /\ pc = "panicked"
        /\ trace[Len(trace)].kind = "solve_panic"
        /\ HasPart("solve_panic", 1) =>
              /\ ~HasPart("timer_start", 2)
              /\ Len(solverArgs) = 1
              /\ solutions = <<>>
        /\ HasPart("solve_panic", 2) =>
              /\ HasPart("timer_stop", 1)
              /\ Len(solutions) = 1
        /\ \A i \in DOMAIN trace : trace[i].kind \notin ReportKinds \cup FileKinds
        /\ outputFile = fileAtStart

\* Part 2 of Day 1 panics on the empty line; a report of an earlier run is
\* in the file
C10_Witness ==
    /\ pc = "panicked"
    /\ solver = "AocDay"
    /\ inputFile.content = GapText
    /\ HasPart("solve_panic", 2)
    /\ Len(solutions) = 1
    /\ fileAtStart.lines # <<>>
    /\ outputFile = fileAtStart

====
